---- MODULE Spec2Model ----
(***************************************************************************)
(* A model of py-boggle: the backtracking path search of utils.py and the  *)
(* interactive session kept by model.Model and driven by boggle.Controller.*)
(*                                                                         *)
(* A word is a sequence of characters, a board symbol is a non-empty word  *)
(* (a cell may hold several characters), a board is a sequence of rows of  *)
(* symbols, a coordinate is a pair <<row, col>> counted from 0 and a path  *)
(* is a sequence of coordinates.                                           *)
(***************************************************************************)
EXTENDS Integers, Sequences, FiniteSets, TLC

(***************************************************************************)
(* Bounds of the model.                                                    *)
(***************************************************************************)
\* longest word of a vocabulary of the search specification
MaxWordLen == 3
\* largest vocabulary of the search specification
MaxVocab == 2
\* largest length asked of the search functions
MaxN == 3
\* longest path built by unrestricted Model.update_word_and_path calls, and
\* longest path handed to is_valid_path
MaxPath == 3
\* most invocations of one search function on one board and vocabulary
MaxCalls == 2
\* the seconds of a round; gui.py counts down from 180
TIMER_DURATION == 3
\* most callbacks waiting in the event loop when the stop or the play button
\* is pressed
MaxJobs == 2

(***************************************************************************)
(* Notation.                                                               *)
(***************************************************************************)
\* the elements of a sequence
Range(seq) == {seq[i] : i \in 1..Len(seq)}

\* the coordinates of a rectangular board
Cells(b) == {<<r, c>> : r \in 0..(Len(b) - 1), c \in 0..(Len(b[1]) - 1)}

(***************************************************************************)
(* Inputs.                                                                 *)
(***************************************************************************)
Chars == {"a", "b"}

\* the cell symbols: "ab" is one cell that spells what cells "a","b" spell
Symbols == {<<"a">>, <<"b">>, <<"a", "b">>}

SingleCharSymbols == {sym \in Symbols : Len(sym) = 1}

BoardsOfShape(rows, cols, symbols) == [1..rows -> [1..cols -> symbols]]

\* one-row boards, where the end cells are not adjacent, over all symbols,
\* and square boards, with vertical and diagonal steps, over the
\* single-character symbols
SearchBoards ==
    BoardsOfShape(1, 3, Symbols) \cup BoardsOfShape(2, 2, SingleCharSymbols)

WordsUpTo(k) == UNION {[1..l -> Chars] : l \in 1..k}

SearchVocabularies == {V \in SUBSET WordsUpTo(MaxWordLen) : Cardinality(V) <= MaxVocab}

(***************************************************************************)
(* utils.py                                                                *)
(***************************************************************************)
\* the deltas in the insertion order of the NEIGHBOURS_DELTA dictionary
NEIGHBOURS_DELTA ==
    << <<-1, 0>>, <<-1, 1>>, <<0, 1>>, <<1, 1>>,
       <<1, 0>>, <<1, -1>>, <<0, -1>>, <<-1, -1>> >>

\* the outcome of a subscript that raises IndexError; no symbol equals it
IndexError == <<"IndexError">>

\* seq[i] of a Python list: a negative index counts from the end
PyIndex(seq, i) ==
    IF 0 <= i /\ i < Len(seq) THEN seq[i + 1]
    ELSE IF -Len(seq) <= i /\ i < 0 THEN seq[Len(seq) + i + 1]
    ELSE IndexError

get_value_by_coordinate(board, coordinate) ==
    IF -Len(board) <= coordinate[1] /\ coordinate[1] < Len(board)
    THEN PyIndex(PyIndex(board, coordinate[1]), coordinate[2])
    ELSE IndexError

is_coordinate_in_board(board, coordinate) ==
    /\ 0 <= coordinate[1] /\ coordinate[1] < Len(board)
    /\ 0 <= coordinate[2] /\ coordinate[2] < Len(board[1])

find_neighbour_coordinate(coordinate, delta) ==
    <<coordinate[1] + delta[1], coordinate[2] + delta[2]>>

\* str.startswith
startswith(s, prefix) ==
    /\ Len(prefix) <= Len(s)
    /\ \A i \in 1..Len(prefix) : s[i] = prefix[i]

filter_words_set_by_prefix(words_set, prefix) ==
    {s \in words_set : startswith(s, prefix)}

\* the loop over NEIGHBOURS_DELTA.values() that looks for coordinate2
are_neighbours(coordinate1, coordinate2) ==
    \E i \in 1..Len(NEIGHBOURS_DELTA) :
        <<coordinate1[1] + NEIGHBOURS_DELTA[i][1],
          coordinate1[2] + NEIGHBOURS_DELTA[i][2]>> = coordinate2

\* the None that is_valid_path returns; no word equals it
NoWord == <<"None">>

RECURSIVE is_valid_path_from(_, _, _, _, _)

\* is_valid_path from the iteration path_index of its loop on, with the word
\* gathered so far; a subscript out of range ends the call with IndexError
is_valid_path_from(board, path, words, word, path_index) ==
    IF path_index < Len(path) - 1
    THEN IF ~are_neighbours(path[path_index + 1], path[path_index + 2])
         THEN NoWord
         ELSE LET value == get_value_by_coordinate(board, path[path_index + 1])
              IN  IF value = IndexError THEN IndexError
                  ELSE is_valid_path_from(board, path, words, word \o value,
                                          path_index + 1)
    ELSE IF path = <<>>
    THEN \* path[-1] of an empty list
         IndexError
    ELSE LET value == get_value_by_coordinate(board, path[Len(path)])
         IN  IF value = IndexError THEN IndexError
             ELSE IF word \o value \in words THEN word \o value ELSE NoWord

is_valid_path(board, path, words) == is_valid_path_from(board, path, words, <<>>, 0)

\* a membership test that looks at the last element only
InList_LastOnly(x, lst) == lst # <<>> /\ lst[Len(lst)] = x

\* x in lst, for a Python list
InList(x, lst) == \E i \in 1..Len(lst) : lst[i] = x

(***************************************************************************)
(* The three search modes differ in the stop and update closures they hand *)
(* to the shared traversal; mode names the pair of closures.               *)
(***************************************************************************)
\* stop closures that also stop beyond n
stop_AtLeast(mode, n, path, word) ==
    IF mode = "find_length_n_paths" THEN Len(path) >= n ELSE Len(word) >= n

\* the stop closures of the three search functions
stop(mode, n, path, word) ==
    IF mode = "find_length_n_paths" THEN Len(path) = n ELSE Len(word) = n

\* index of word among the keys of the insertion-ordered dict, 0 if absent
KeyIndex(dict_paths, word) ==
    IF \E i \in 1..Len(dict_paths) : dict_paths[i].key = word
    THEN CHOOSE i \in 1..Len(dict_paths) : dict_paths[i].key = word
    ELSE 0

\* the update closures: the list modes append a copy of the path, the
\* max_score_paths mode appends it to the list kept under the word
update(mode, dataset, path, word) ==
    IF mode = "max_score_paths"
    THEN LET withKey == IF KeyIndex(dataset, word) = 0
                        THEN Append(dataset, [key |-> word, val |-> <<>>])
                        ELSE dataset
             k == KeyIndex(withKey, word)
         IN  [withKey EXCEPT ![k].val = Append(@, path)]
    ELSE Append(dataset, path)

RECURSIVE backtracking_action(_, _, _, _, _, _, _)
RECURSIVE backtracking_neighbours(_, _, _, _, _, _, _, _)

\* the body of the loop over NEIGHBOURS_DELTA, from the delta of index i on;
\* returns the dataset after the remaining iterations
backtracking_neighbours(mode, n, board, words_set, dataset, curr_path, curr_word, i) ==
    IF i > Len(NEIGHBOURS_DELTA) THEN dataset
    ELSE LET neighbour == find_neighbour_coordinate(curr_path[Len(curr_path)],
                                                    NEIGHBOURS_DELTA[i])
         IN  IF ~is_coordinate_in_board(board, neighbour)
             THEN backtracking_neighbours(mode, n, board, words_set, dataset,
                                          curr_path, curr_word, i + 1)
             ELSE IF InList(neighbour, curr_path)
             THEN backtracking_neighbours(mode, n, board, words_set, dataset,
                                          curr_path, curr_word, i + 1)
             ELSE LET new_word == curr_word \o get_value_by_coordinate(board, neighbour)
                      filtered_words == filter_words_set_by_prefix(words_set, new_word)
                  IN  IF filtered_words = {}
                      THEN backtracking_neighbours(mode, n, board, words_set, dataset,
                                                   curr_path, curr_word, i + 1)
                      ELSE LET returned == backtracking_action(mode, n, board,
                                               filtered_words, dataset,
                                               Append(curr_path, neighbour), new_word)
                           IN  \* the recursive call returns, then the loop goes on
                               IF Len(returned) >= 0
                               THEN backtracking_neighbours(mode, n, board, words_set,
                                        returned, curr_path, curr_word, i + 1)
                               ELSE returned

\* returns the dataset as the call leaves it
backtracking_action(mode, n, board, words_set, dataset, curr_path, curr_word) ==
    IF stop(mode, n, curr_path, curr_word)
    THEN IF curr_word \in words_set
         THEN update(mode, dataset, curr_path, curr_word)
         ELSE dataset
    ELSE backtracking_neighbours(mode, n, board, words_set, dataset,
                                 curr_path, curr_word, 1)

RECURSIVE backtracking_start_from(_, _, _, _, _, _, _)

\* the nested loops over the starting coordinate, from (row_index, col_index) on
backtracking_start_from(mode, n, board, words_set, dataset, row_index, col_index) ==
    IF row_index >= Len(board) THEN dataset
    ELSE IF col_index >= Len(board[row_index + 1])
    THEN backtracking_start_from(mode, n, board, words_set, dataset, row_index + 1, 0)
    ELSE LET coordinate == <<row_index, col_index>>
             curr_word == get_value_by_coordinate(board, coordinate)
             filtered_words == filter_words_set_by_prefix(words_set, curr_word)
         IN  IF filtered_words = {}
             THEN backtracking_start_from(mode, n, board, words_set, dataset,
                                          row_index, col_index + 1)
             ELSE LET returned == backtracking_action(mode, n, board, words_set,
                                      dataset, <<coordinate>>, curr_word)
                  IN  \* the call returns, then the loop goes on
                      IF Len(returned) >= 0
                      THEN backtracking_start_from(mode, n, board, words_set,
                               returned, row_index, col_index + 1)
                      ELSE returned

backtracking_start(mode, n, board, words, dataset) ==
    backtracking_start_from(mode, n, board, words, dataset, 0, 0)

find_length_n_paths(n, board, words) ==
    backtracking_start("find_length_n_paths", n, board, words, <<>>)

find_length_n_words(n, board, words) ==
    backtracking_start("find_length_n_words", n, board, words, <<>>)

\* the first path of the list, whatever its length
MaxByLen_First(lst_paths) == lst_paths[1]

\* max(lst_paths, key=len): the first path of the greatest length
MaxByLen(lst_paths) ==
    LET best == CHOOSE i \in 1..Len(lst_paths) :
                    /\ \A j \in 1..Len(lst_paths) : Len(lst_paths[j]) <= Len(lst_paths[i])
                    /\ \A j \in 1..(i - 1) : Len(lst_paths[j]) < Len(lst_paths[i])
    IN  lst_paths[best]

RECURSIVE max_score_passes(_, _, _, _)

\* the loop over word_lengths; a set of small integers is iterated in
\* increasing order
max_score_passes(board, words, word_lengths, dict_paths) ==
    IF word_lengths = {} THEN dict_paths
    ELSE LET length == CHOOSE l \in word_lengths : \A m \in word_lengths : l <= m
         IN  max_score_passes(board, words, word_lengths \ {length},
                 backtracking_start("max_score_paths", length, board, words, dict_paths))

max_score_paths(board, words) ==
    LET word_lengths == {Len(s) : s \in words}
        dict_paths == max_score_passes(board, words, word_lengths, <<>>)
    IN  [i \in 1..Len(dict_paths) |-> MaxByLen(dict_paths[i].val)]

(***************************************************************************)
(* model.py.  A Model is the record of its fields; a method is the Model   *)
(* it leaves, with the value it returns where it returns one.              *)
(***************************************************************************)
\* list.remove(x): the list without the first occurrence of x
ListRemove(lst, x) ==
    LET i == CHOOSE k \in 1..Len(lst) :
                 lst[k] = x /\ \A j \in 1..(k - 1) : lst[j] # x
    IN  SubSeq(lst, 1, i - 1) \o SubSeq(lst, i + 1, Len(lst))

\* s[:k] of a Python string: a negative k counts from the end
PySlicePrefix(s, k) ==
    IF k >= 0 THEN SubSeq(s, 1, IF k < Len(s) THEN k ELSE Len(s))
    ELSE SubSeq(s, 1, IF Len(s) + k > 0 THEN Len(s) + k ELSE 0)

update_word_and_path(m, board_coordinate) ==
    LET y == board_coordinate[1]
        x == board_coordinate[2]
        last == Len(m.current_path)
    IN  IF m.current_path # <<>> /\ m.current_path[last] = board_coordinate
        THEN \* undo
             LET slice_index == Len(m.current_word) - Len(PyIndex(PyIndex(m.board, y), x))
             IN  [m EXCEPT !.current_path = ListRemove(@, board_coordinate),
                           !.current_word = PySlicePrefix(@, slice_index)]
        ELSE \* add
             [m EXCEPT !.current_word = @ \o PyIndex(PyIndex(m.board, y), x),
                       !.current_path = Append(@, board_coordinate)]

\* a score that grows by the square of the number of characters
increase_score_ByChars(m) ==
    [m EXCEPT !.score = @ + Len(m.current_word) * Len(m.current_word)]

\* a score that grows by twice the number of cells
increase_score_Twice(m) ==
    [m EXCEPT !.score = @ + 2 * Len(m.current_path)]

increase_score(m) ==
    [m EXCEPT !.score = @ + Len(m.current_path) * Len(m.current_path)]

\* the value of a method that returns nothing
None == [msg |-> "None", word |-> <<>>]

\* the four f-strings check_word returns, each with the word it names
Message(msg, word) == [msg |-> msg, word |-> word]

\* a check that credits a vocabulary word whether or not it was found
check_word_NoFoundTest(m) ==
    IF m.current_word \notin m.words_collection
    THEN [model |-> m, ret |-> Message("is not a word", m.current_word)]
    ELSE [model |-> increase_score([m EXCEPT !.words_found = @ \cup {m.current_word}]),
          ret |-> IF Len(m.current_word) < 6
                  THEN Message("You found", m.current_word)
                  ELSE Message("You found. Nice work!", m.current_word)]

check_word(m) ==
    IF m.current_word \notin m.words_collection
    THEN [model |-> m, ret |-> Message("is not a word", m.current_word)]
    ELSE IF m.current_word \in m.words_found
    THEN [model |-> m, ret |-> Message("You already found", m.current_word)]
    ELSE [model |-> increase_score([m EXCEPT !.words_found = @ \cup {m.current_word}]),
          ret |-> IF Len(m.current_word) < 6
                  THEN Message("You found", m.current_word)
                  ELSE Message("You found. Nice work!", m.current_word)]

\* a reset that restores every field __init__ sets but the vocabulary
reset_current_input_AlsoScore(m) ==
    [m EXCEPT !.current_word = <<>>, !.current_path = <<>>,
              !.score = 0, !.words_found = {}]

reset_current_input(m) ==
    [m EXCEPT !.current_word = <<>>, !.current_path = <<>>]

is_coordinate_in_boundaries(m, coordinate) ==
    /\ 0 <= coordinate[1] /\ coordinate[1] < Len(m.board)
    /\ 0 <= coordinate[2] /\ coordinate[2] < Len(m.board[1])

\* every neighbour in bounds is offered, chosen or not
get_buttons_to_enable_AlsoChosen(m) ==
    LET base == m.current_path[Len(m.current_path)]
        neighbours == [i \in 1..Len(NEIGHBOURS_DELTA) |->
                         <<base[1] + NEIGHBOURS_DELTA[i][1],
                           base[2] + NEIGHBOURS_DELTA[i][2]>>]
        Keep(neighbour_coordinate) ==
            is_coordinate_in_boundaries(m, neighbour_coordinate)
    IN  <<base>> \o SelectSeq(neighbours, Keep)

\* self.__current_path[-1] of an empty list raises IndexError
get_buttons_to_enable(m) ==
    IF m.current_path = <<>> THEN IndexError
    ELSE
    LET base == m.current_path[Len(m.current_path)]
        neighbours == [i \in 1..Len(NEIGHBOURS_DELTA) |->
                         <<base[1] + NEIGHBOURS_DELTA[i][1],
                           base[2] + NEIGHBOURS_DELTA[i][2]>>]
        Keep(neighbour_coordinate) ==
            /\ is_coordinate_in_boundaries(m, neighbour_coordinate)
            /\ ~InList(neighbour_coordinate, m.current_path)
    IN  <<base>> \o SelectSeq(neighbours, Keep)

(***************************************************************************)
(* gui.py.  A GUI is the record of the fields and the widget states a      *)
(* handler reads or changes:                                               *)
(*   score           GUI.__score                                           *)
(*   words_found     the lines of the listbox _label_words_found           *)
(*   is_game_running GUI.__is_game_running                                 *)
(*   time_left       GUI.__time_left                                       *)
(*   countdown_job   GUI._countdown_job: "unset" before the first          *)
(*                   assignment, "None", "scheduled" for the handle of the *)
(*                   callback at the end of after_jobs, "run" for the      *)
(*                   handle of a callback that has run                     *)
(*   after_jobs      the __countdown callbacks waiting in the event loop,  *)
(*                   each the time it will be called with; all wait        *)
(*                   TIMER_DELAY_IN_MS, so they run in the order they were *)
(*                   scheduled                                             *)
(*   dialogs         the open message boxes, the topmost first; a handler  *)
(*                   that opens one goes on when it is closed              *)
(*   button_play     the state of the play button, "normal" when shown     *)
(*   actions_shown   whether the stop, restart and check buttons are shown *)
(*   buttons_board   the board buttons whose state is NORMAL               *)
(*   end_games       history: the __end_game calls since the round began   *)
(***************************************************************************)
init_vars(g) ==
    [g EXCEPT !.score = 0, !.is_game_running = FALSE, !.time_left = TIMER_DURATION]

\* after_cancel of a callback that has run changes nothing
stop_countdown(g) ==
    IF g.countdown_job = "scheduled"
    THEN [g EXCEPT !.after_jobs = SubSeq(@, 1, Len(@) - 1), !.countdown_job = "None"]
    ELSE IF g.countdown_job = "run"
    THEN [g EXCEPT !.countdown_job = "None"]
    ELSE g

\* __end_game up to the message box of __prompt_end_game_message, which
\* leaves is_game_running False in both of its branches
end_game(g) ==
    [g EXCEPT !.is_game_running = FALSE,
              !.dialogs = <<"end_game">> \o @,
              !.end_games = @ + 1]

\* __end_game from the closing of its message box on
end_game_closed(g) ==
    LET reset == [init_vars(g) EXCEPT !.dialogs = Tail(@),
                                      !.words_found = <<>>,
                                      !.actions_shown = FALSE,
                                      !.button_play = "normal",
                                      !.buttons_board = {}]
    IN  stop_countdown(reset)

countdown(g, time) ==
    IF time = 0
    THEN end_game([g EXCEPT !.time_left = time, !.is_game_running = FALSE])
    ELSE IF g.is_game_running
    THEN [g EXCEPT !.time_left = time,
                   !.after_jobs = Append(@, time - 1),
                   !.countdown_job = "scheduled"]
    ELSE [g EXCEPT !.time_left = time]

\* the event loop runs the callback that has waited longest
after_job_runs(g) ==
    LET taken == [g EXCEPT !.after_jobs = Tail(@),
                           !.countdown_job =
                               IF @ = "scheduled" /\ Len(g.after_jobs) = 1
                               THEN "run" ELSE @]
    IN  countdown(taken, Head(g.after_jobs))

\* buttons are the board buttons; a round begins here
button_play_on_press(g, buttons) ==
    countdown([g EXCEPT !.is_game_running = TRUE,
                        !.button_play = "disabled",
                        !.actions_shown = TRUE,
                        !.buttons_board = buttons,
                        !.end_games = 0],
              TIMER_DURATION)

\* button_stop_on_press up to its message box
button_stop_on_press(g) ==
    [g EXCEPT !.is_game_running = FALSE, !.dialogs = <<"stop">> \o @]

\* button_stop_on_press from the answer msg_box on; after the answer "no"
\* it starts a countdown and disables the board buttons
stop_answered(g, msg_box) ==
    LET resumed == [g EXCEPT !.is_game_running = TRUE, !.dialogs = Tail(@)]
    IN  IF msg_box = "yes" THEN end_game(resumed)
        ELSE [countdown(resumed, resumed.time_left) EXCEPT !.buttons_board = {}]

\* the frames are made anew: an empty listbox, a play button
button_restart_on_press(g, buttons) ==
    LET remade == [init_vars(g) EXCEPT !.words_found = <<>>,
                                       !.button_play = "normal",
                                       !.actions_shown = FALSE,
                                       !.buttons_board = buttons]
    IN  button_play_on_press(stop_countdown(remade), buttons)

button_check_on_press(g, buttons) == [g EXCEPT !.buttons_board = buttons]

add_word_to_words_found(g, word) == [g EXCEPT !.words_found = Append(@, word)]

update_score(g, new_score) == [g EXCEPT !.score = new_score]

\* the GUI as GUI.__init__ leaves it
NewGUI ==
    [score |-> 0, words_found |-> <<>>, is_game_running |-> FALSE,
     time_left |-> TIMER_DURATION, countdown_job |-> "unset",
     after_jobs |-> <<>>, dialogs |-> <<>>, button_play |-> "normal",
     actions_shown |-> FALSE, buttons_board |-> {}, end_games |-> 0]

(***************************************************************************)
(* State.  board and words_collection are the inputs of a search and the   *)
(* fields of the Model; words_found, current_word, current_path and score  *)
(* are the other fields of the Model.                                      *)
(***************************************************************************)
VARIABLES
    board,             \* Model.__board / the board argument of a search
    words_collection,  \* Model.__words_collection / the words argument
    words_found,       \* Model.__words_found
    current_word,      \* Model.__current_word
    current_path,      \* Model.__current_path
    score,             \* Model.__score
    response,          \* what the last call of a Model method returned
    credited,          \* history: the cell count each found word was credited with
    buttons_enabled,   \* the board buttons of the GUI whose state is NORMAL
    gui_score,         \* GUI.__score
    label_words_found, \* the lines of the listbox GUI._label_words_found
    is_game_running,   \* GUI.__is_game_running
    time_left,         \* GUI.__time_left
    countdown_job,     \* GUI._countdown_job
    after_jobs,        \* the __countdown callbacks waiting in the event loop
    dialogs,           \* the open message boxes, the topmost first
    button_play,       \* the state of the play button
    actions_shown,     \* whether the stop, restart and check buttons are shown
    end_games,         \* history: the __end_game calls since the round began
    handler,           \* history: the handler that ran last
    call,              \* the last call of a utils function: its name and its n
    result,            \* what the last call of a utils function returned
    argument,          \* the coordinate or path argument of that call
    invocations,       \* how many times that call has been made
    start,             \* the search under way: the loops of the search function
                       \* and of __backtracking_start
    frames,            \* the calls of __backtracking_action under way, the
                       \* innermost last
    curr_path,         \* the list curr_path those calls share
    dataset            \* the list or dict the search fills

\* the variables of a search as it runs
traverse_vars == <<start, frames, curr_path, dataset>>

\* the variables of the calls of utils functions
call_vars == <<call, result, argument, invocations, traverse_vars>>

\* the variables of the GUI but the board buttons
gui_vars == <<gui_score, label_words_found, is_game_running, time_left,
              countdown_job, after_jobs, dialogs, button_play, actions_shown,
              end_games>>

vars == <<board, words_collection, words_found, current_word, current_path,
          score, response, credited, buttons_enabled, gui_vars, handler,
          call_vars>>

session_vars == <<words_found, current_word, current_path, score, response,
                  credited, buttons_enabled, gui_vars, handler>>

\* the GUI object
gui ==
    [score |-> gui_score, words_found |-> label_words_found,
     is_game_running |-> is_game_running, time_left |-> time_left,
     countdown_job |-> countdown_job, after_jobs |-> after_jobs,
     dialogs |-> dialogs, button_play |-> button_play,
     actions_shown |-> actions_shown, buttons_board |-> buttons_enabled,
     end_games |-> end_games]

\* the GUI object is g
GuiIs(g) ==
    /\ gui_score = g.score
    /\ label_words_found = g.words_found
    /\ is_game_running = g.is_game_running
    /\ time_left = g.time_left
    /\ countdown_job = g.countdown_job
    /\ after_jobs = g.after_jobs
    /\ dialogs = g.dialogs
    /\ button_play = g.button_play
    /\ actions_shown = g.actions_shown
    /\ buttons_enabled = g.buttons_board
    /\ end_games = g.end_games

\* the GUI object is g after the step
GuiBecomes(g) ==
    /\ gui_score' = g.score
    /\ label_words_found' = g.words_found
    /\ is_game_running' = g.is_game_running
    /\ time_left' = g.time_left
    /\ countdown_job' = g.countdown_job
    /\ after_jobs' = g.after_jobs
    /\ dialogs' = g.dialogs
    /\ button_play' = g.button_play
    /\ actions_shown' = g.actions_shown
    /\ buttons_enabled' = g.buttons_board
    /\ end_games' = g.end_games

\* no handler of the GUI has run
NoGui ==
    /\ GuiIs(NewGUI)
    /\ handler = "none"

NoCall == [fn |-> "none", n |-> 0]

\* no search is under way
NoSearch == [pc |-> "idle", n |-> 0, row_index |-> 0, col_index |-> 0,
             word_lengths |-> {}]

\* no utils function has been called
NoCalls ==
    /\ call = NoCall
    /\ result = <<>>
    /\ argument = <<>>
    /\ invocations = 0
    /\ start = NoSearch
    /\ frames = <<>>
    /\ curr_path = <<>>
    /\ dataset = <<>>

\* the fields as Model.__init__ leaves them
ModelInit ==
    /\ words_found = {}
    /\ current_word = <<>>
    /\ current_path = <<>>
    /\ score = 0
    /\ response = None
    /\ credited = <<>>

(***************************************************************************)
(* The search specification: a board and a vocabulary are drawn, and the   *)
(* one of the three search functions is called on them.                    *)
(***************************************************************************)
InitSearch ==
    /\ board \in SearchBoards
    /\ words_collection \in SearchVocabularies
    /\ ModelInit
    /\ NoGui
    /\ NoCalls

CallFindLengthNPaths ==
    \E n \in -1..MaxN :
        /\ call = NoCall
        /\ call' = [fn |-> "find_length_n_paths", n |-> n]
        /\ result' = find_length_n_paths(n, board, words_collection)
        /\ invocations' = 1
        /\ UNCHANGED <<board, words_collection, session_vars, traverse_vars, argument>>

CallFindLengthNWords ==
    \E n \in -1..MaxN :
        /\ call = NoCall
        /\ call' = [fn |-> "find_length_n_words", n |-> n]
        /\ result' = find_length_n_words(n, board, words_collection)
        /\ invocations' = 1
        /\ UNCHANGED <<board, words_collection, session_vars, traverse_vars, argument>>

CallMaxScorePaths ==
    /\ call = NoCall
    /\ call' = [fn |-> "max_score_paths", n |-> 0]
    /\ result' = max_score_paths(board, words_collection)
    /\ invocations' = 1
    /\ UNCHANGED <<board, words_collection, session_vars, traverse_vars, argument>>

NextSearch ==
    \/ CallFindLengthNPaths
    \/ CallFindLengthNWords
    \/ CallMaxScorePaths

SpecSearch == InitSearch /\ [][NextSearch]_vars

(***************************************************************************)
(* The rounds of the session specifications: a board with its vocabulary.  *)
(* The first spells "square" on five cells, one of them "qu", and cannot   *)
(* spell "tea" on adjacent cells; the second spells "qua" and "qu" each on *)
(* paths of two different cell counts.                                     *)
(***************************************************************************)
SessionRounds ==
    { [board |-> << << <<"s">>, <<"q", "u">>, <<"a">> >>,
                    << <<"e">>, <<"r">>, <<"t">> >> >>,
       words |-> { <<"a", "r", "t">>,
                   <<"s", "q", "u", "a", "r", "e">>,
                   <<"t", "e", "a">> }],
      [board |-> << << <<"q">>, <<"u">> >>,
                    << <<"q", "u">>, <<"a">> >> >>,
       words |-> { <<"q", "u", "a">>, <<"q", "u">> }] }

(***************************************************************************)
(* The repetition specification: a search function is called again on the  *)
(* board and the vocabulary of its first call.                             *)
(***************************************************************************)
\* the vocabularies of words of one or two characters
RepeatVocabularies == {V \in SUBSET WordsUpTo(2) : Cardinality(V) <= MaxVocab}

InitRepeat ==
    /\ board \in SearchBoards
    /\ words_collection \in RepeatVocabularies
    /\ ModelInit
    /\ NoGui
    /\ NoCalls

\* a vocabulary handed over as an iterator is used up by the first call
SearchResult_Consumed(c) ==
    IF c.fn = "find_length_n_paths" THEN find_length_n_paths(c.n, board, {})
    ELSE IF c.fn = "find_length_n_words" THEN find_length_n_words(c.n, board, {})
    ELSE max_score_paths(board, {})

\* what the function of call c returns on the board and the vocabulary
SearchResult(c) ==
    IF c.fn = "find_length_n_paths"
    THEN find_length_n_paths(c.n, board, words_collection)
    ELSE IF c.fn = "find_length_n_words"
    THEN find_length_n_words(c.n, board, words_collection)
    ELSE max_score_paths(board, words_collection)

CallAgain ==
    /\ call # NoCall
    /\ invocations < MaxCalls
    /\ result' = SearchResult(call)
    /\ invocations' = invocations + 1
    /\ UNCHANGED <<board, words_collection, session_vars, traverse_vars, call, argument>>

NextRepeat ==
    \/ CallFindLengthNPaths
    \/ CallFindLengthNWords
    \/ CallMaxScorePaths
    \/ CallAgain

SpecRepeat == InitRepeat /\ [][NextRepeat]_vars

(***************************************************************************)
(* The specification of the two other functions of utils.py: a value is    *)
(* read at a coordinate on or near the board, and is_valid_path is called  *)
(* with a sequence of such coordinates.                                    *)
(***************************************************************************)
\* the rounds and a board that spells a word by stepping back onto a cell
UtilsRounds ==
    SessionRounds \cup
    { [board |-> << << <<"a">>, <<"b">> >>,
                    << <<"b">>, <<"a">> >> >>,
       words |-> { <<"a", "b", "a">>, <<"a", "b">> }] }

\* the coordinates off the board by up to margin rows and columns
Around(b, margin) ==
    {<<r, c>> : r \in (-margin)..(Len(b) - 1 + margin),
                c \in (-margin)..(Len(b[1]) - 1 + margin)}

\* the sequences of up to MaxPath coordinates on the board or next to it
PathsAround(b) == UNION {[1..k -> Around(b, 1)] : k \in 0..MaxPath}

InitUtils ==
    /\ \E round \in UtilsRounds :
          /\ board = round.board
          /\ words_collection = round.words
    /\ ModelInit
    /\ NoGui
    /\ NoCalls

\* negative subscripts down to -len are in range for a Python list
CallGetValueByCoordinate ==
    \E coordinate \in Around(board, Len(board) + 1) :
        /\ call = NoCall
        /\ call' = [fn |-> "get_value_by_coordinate", n |-> 0]
        /\ argument' = coordinate
        /\ result' = get_value_by_coordinate(board, coordinate)
        /\ invocations' = 1
        /\ UNCHANGED <<board, words_collection, session_vars, traverse_vars>>

CallIsValidPath ==
    \E path \in PathsAround(board) :
        /\ call = NoCall
        /\ call' = [fn |-> "is_valid_path", n |-> 0]
        /\ argument' = path
        /\ result' = is_valid_path(board, path, words_collection)
        /\ invocations' = 1
        /\ UNCHANGED <<board, words_collection, session_vars, traverse_vars>>

NextUtils ==
    \/ CallGetValueByCoordinate
    \/ CallIsValidPath

SpecUtils == InitUtils /\ [][NextUtils]_vars

(***************************************************************************)
(* The traversal specification: a search function runs step by step.       *)
(* start holds the position of the loops of the search function and of     *)
(* __backtracking_start:                                                   *)
(*   pc           "idle" before the call, "lengths" at the head of the     *)
(*                loop of max_score_paths over word_lengths, "loop" at the *)
(*                head of the inner loop over the starting coordinates,    *)
(*                "called" while __backtracking_action runs, "done" when   *)
(*                the search function has returned                         *)
(*   n            the n handed to __backtracking_start                     *)
(*   row_index, col_index  the starting coordinate the loops are at        *)
(*   word_lengths the lengths max_score_paths has yet to search            *)
(* A frame of frames is a call of __backtracking_action:                   *)
(*   words_set, curr_word  its arguments                                   *)
(*   called_with  the content of curr_path when the call was made          *)
(*   delta        the index of the delta its loop is at                    *)
(*   pc           "enter" at its first statement, "loop" at the head of    *)
(*                its loop, "called" while its recursive call runs         *)
(***************************************************************************)
\* a board whose four cells spell a vocabulary word, with a word that goes
\* on through a cell already used and a word longer than any path; one-row
\* boards; a board with a cell of two characters
TraverseRounds ==
    { [board |-> << << <<"a">>, <<"b">> >>,
                    << <<"b">>, <<"a">> >> >>,
       words |-> { <<"a", "b", "b", "a">>, <<"a", "b", "a", "b", "a">> }],
      [board |-> << << <<"a">>, <<"b">> >>,
                    << <<"b">>, <<"a">> >> >>,
       words |-> { <<"a", "b">>, <<"b", "a", "b">> }],
      [board |-> << << <<"a">>, <<"b">> >>,
                    << <<"b">>, <<"a">> >> >>,
       words |-> {}],
      [board |-> << << <<"a">>, <<"b">>, <<"a">> >> >>,
       words |-> { <<"a", "b", "a">>, <<"b">> }],
      [board |-> << << <<"a", "b">>, <<"a">>, <<"b">> >> >>,
       words |-> { <<"a", "b", "a">>, <<"a", "b">> }] }

\* n from below 0 to beyond the number of cells
TraverseNs == -1..(MaxN + 2)

InitTraverse ==
    /\ \E round \in TraverseRounds :
          /\ board = round.board
          /\ words_collection = round.words
    /\ ModelInit
    /\ NoGui
    /\ NoCalls

\* the mode of the search under way
mode == call.fn

\* a call of __backtracking_action begins
Frame(words_set, word, path) ==
    [words_set |-> words_set, curr_word |-> word, called_with |-> path,
     delta |-> 1, pc |-> "enter"]

\* the innermost call
top == frames[Len(frames)]

\* a statement that leaves the call variables but those of the traversal
SearchUnchanged ==
    UNCHANGED <<board, words_collection, session_vars, call, argument,
                invocations>>

\* find_length_n_paths or find_length_n_words is called: an empty list, then
\* __backtracking_start
CallListSearch ==
    \E fn \in {"find_length_n_paths", "find_length_n_words"}, n \in TraverseNs :
        /\ start.pc = "idle"
        /\ call' = [fn |-> fn, n |-> n]
        /\ invocations' = 1
        /\ start' = [start EXCEPT !.pc = "loop", !.n = n,
                                  !.row_index = 0, !.col_index = 0]
        /\ dataset' = <<>>
        /\ UNCHANGED <<board, words_collection, session_vars, argument, result,
                       frames, curr_path>>

\* max_score_paths is called: an empty dict and the set of word lengths
CallMaxScoreSearch ==
    /\ start.pc = "idle"
    /\ call' = [fn |-> "max_score_paths", n |-> 0]
    /\ invocations' = 1
    /\ start' = [start EXCEPT !.pc = "lengths",
                              !.word_lengths = {Len(s) : s \in words_collection}]
    /\ dataset' = <<>>
    /\ UNCHANGED <<board, words_collection, session_vars, argument, result,
                   frames, curr_path>>

\* the head of the loop of max_score_paths over word_lengths: the next
\* length, or the list of the longest paths
NextLength ==
    /\ start.pc = "lengths"
    /\ IF start.word_lengths = {}
       THEN /\ start' = [start EXCEPT !.pc = "done"]
            /\ result' = [i \in 1..Len(dataset) |-> MaxByLen(dataset[i].val)]
       ELSE LET length == CHOOSE l \in start.word_lengths :
                              \A m \in start.word_lengths : l <= m
            IN  /\ start' = [start EXCEPT !.pc = "loop", !.n = length,
                                          !.row_index = 0, !.col_index = 0,
                                          !.word_lengths = @ \ {length}]
                /\ result' = result
    /\ UNCHANGED <<frames, curr_path, dataset>>
    /\ SearchUnchanged

\* the head of the loops of __backtracking_start over the starting coordinate
StartLoop ==
    /\ start.pc = "loop"
    /\ IF start.row_index >= Len(board)
       THEN \* __backtracking_start returns
            /\ IF mode = "max_score_paths"
               THEN /\ start' = [start EXCEPT !.pc = "lengths"]
                    /\ result' = result
               ELSE /\ start' = [start EXCEPT !.pc = "done"]
                    /\ result' = dataset
            /\ UNCHANGED <<frames, curr_path>>
       ELSE IF start.col_index >= Len(board[start.row_index + 1])
       THEN /\ start' = [start EXCEPT !.row_index = @ + 1, !.col_index = 0]
            /\ UNCHANGED <<result, frames, curr_path>>
       ELSE LET coordinate == <<start.row_index, start.col_index>>
                curr_word == get_value_by_coordinate(board, coordinate)
                filtered_words == filter_words_set_by_prefix(words_collection, curr_word)
            IN  IF filtered_words = {}
                THEN /\ start' = [start EXCEPT !.col_index = @ + 1]
                     /\ UNCHANGED <<result, frames, curr_path>>
                ELSE /\ start' = [start EXCEPT !.pc = "called"]
                     /\ curr_path' = <<coordinate>>
                     /\ frames' = <<Frame(words_collection, curr_word, <<coordinate>>)>>
                     /\ result' = result
    /\ dataset' = dataset
    /\ SearchUnchanged

\* the call __backtracking_start made has returned
StartResume ==
    /\ start.pc = "called"
    /\ frames = <<>>
    /\ start' = [start EXCEPT !.pc = "loop", !.col_index = @ + 1]
    /\ UNCHANGED <<result, frames, curr_path, dataset>>
    /\ SearchUnchanged

\* the first statement of __backtracking_action: the stop condition
ActionEnter ==
    /\ frames # <<>>
    /\ top.pc = "enter"
    /\ IF stop(mode, start.n, curr_path, top.curr_word)
       THEN /\ dataset' = IF top.curr_word \in top.words_set
                          THEN update(mode, dataset, curr_path, top.curr_word)
                          ELSE dataset
            /\ frames' = SubSeq(frames, 1, Len(frames) - 1)
       ELSE /\ dataset' = dataset
            /\ frames' = [frames EXCEPT ![Len(frames)].pc = "loop"]
    /\ UNCHANGED <<start, result, curr_path>>
    /\ SearchUnchanged

\* the head of the loop of __backtracking_action over NEIGHBOURS_DELTA
ActionLoop ==
    /\ frames # <<>>
    /\ top.pc = "loop"
    /\ IF top.delta > Len(NEIGHBOURS_DELTA)
       THEN \* the loop is over: the call returns
            /\ frames' = SubSeq(frames, 1, Len(frames) - 1)
            /\ curr_path' = curr_path
       ELSE LET neighbour == find_neighbour_coordinate(curr_path[Len(curr_path)],
                                                       NEIGHBOURS_DELTA[top.delta])
                skipped == [frames EXCEPT ![Len(frames)].delta = @ + 1]
            IN  IF ~is_coordinate_in_board(board, neighbour)
                THEN frames' = skipped /\ curr_path' = curr_path
                ELSE IF InList(neighbour, curr_path)
                THEN frames' = skipped /\ curr_path' = curr_path
                ELSE LET new_word == top.curr_word \o
                                         get_value_by_coordinate(board, neighbour)
                         filtered_words ==
                             filter_words_set_by_prefix(top.words_set, new_word)
                     IN  IF filtered_words = {}
                         THEN frames' = skipped /\ curr_path' = curr_path
                         ELSE /\ curr_path' = Append(curr_path, neighbour)
                              /\ frames' =
                                    Append([frames EXCEPT ![Len(frames)].pc = "called"],
                                           Frame(filtered_words, new_word,
                                                 Append(curr_path, neighbour)))
    /\ UNCHANGED <<start, result, dataset>>
    /\ SearchUnchanged

\* the recursive call has returned: curr_path.pop(), then the next delta
ActionResume ==
    /\ frames # <<>>
    /\ top.pc = "called"
    /\ curr_path' = SubSeq(curr_path, 1, Len(curr_path) - 1)
    /\ frames' = [frames EXCEPT ![Len(frames)].pc = "loop",
                                ![Len(frames)].delta = @ + 1]
    /\ UNCHANGED <<start, result, dataset>>
    /\ SearchUnchanged

NextTraverse ==
    \/ CallListSearch
    \/ CallMaxScoreSearch
    \/ NextLength
    \/ StartLoop
    \/ StartResume
    \/ ActionEnter
    \/ ActionLoop
    \/ ActionResume

\* the interpreter runs one thread: a statement that can run does run
SpecTraverse == InitTraverse /\ [][NextTraverse]_vars /\ WF_vars(NextTraverse)

\* the rounds of the Model specification, where the calls reach every
\* sequence of coordinates: the rounds of four cells
ModelRounds == {round \in SessionRounds : Cardinality(Cells(round.board)) = 4}

\* the Model object
self ==
    [board |-> board, words_collection |-> words_collection,
     words_found |-> words_found, current_word |-> current_word,
     current_path |-> current_path, score |-> score]

\* the Model object is m after the step
Becomes(m) ==
    /\ board' = m.board
    /\ words_collection' = m.words_collection
    /\ words_found' = m.words_found
    /\ current_word' = m.current_word
    /\ current_path' = m.current_path
    /\ score' = m.score

\* the history of credits: a word that enters words_found is recorded with
\* the cell count of the path that was checked
Credit(m) ==
    credited' = IF m.words_found # words_found
                THEN (current_word :> Len(current_path)) @@ credited
                ELSE credited

\* the buttons of the board
AllButtons == Cells(board)

(***************************************************************************)
(* The Model specification: the three methods of a Model are called in any *)
(* order, update_word_and_path with any coordinate of the board.           *)
(***************************************************************************)
InitModel ==
    /\ \E round \in ModelRounds :
          /\ board = round.board
          /\ words_collection = round.words
    /\ ModelInit
    /\ NoGui
    /\ NoCalls

ModelUpdateWordAndPath ==
    \E board_coordinate \in Cells(board) :
        /\ Len(update_word_and_path(self, board_coordinate).current_path) <= MaxPath
        /\ Becomes(update_word_and_path(self, board_coordinate))
        /\ response' = None
        /\ UNCHANGED <<credited, buttons_enabled, gui_vars, handler, call_vars>>

ModelCheckWord ==
    /\ Becomes(check_word(self).model)
    /\ response' = check_word(self).ret
    /\ Credit(check_word(self).model)
    /\ UNCHANGED <<buttons_enabled, gui_vars, handler, call_vars>>

ModelResetCurrentInput ==
    /\ Becomes(reset_current_input(self))
    /\ response' = None
    /\ UNCHANGED <<credited, buttons_enabled, gui_vars, handler, call_vars>>

NextModel ==
    \/ ModelUpdateWordAndPath
    \/ ModelCheckWord
    \/ ModelResetCurrentInput

SpecModel == InitModel /\ [][NextModel]_vars

(***************************************************************************)
(* The Controller specification: a round as the player drives it through   *)
(* the board buttons that are enabled and the check button.  It starts     *)
(* when on_play_button_pressed has made the Model, shown the board and     *)
(* enabled every board button.                                             *)
(***************************************************************************)
initialize_model_KeepScore(new_board) ==
    [board |-> new_board, words_collection |-> words_collection,
     words_found |-> {}, current_word |-> <<>>, current_path |-> <<>>,
     score |-> score]

\* Controller.initialize_model: a new Model with the vocabulary loaded at
\* start-up and the board the randomizer made
initialize_model(new_board) ==
    [board |-> new_board, words_collection |-> words_collection,
     words_found |-> {}, current_word |-> <<>>, current_path |-> <<>>,
     score |-> 0]

\* the boards the randomizer makes
RoundBoards == {round.board : round \in SessionRounds}

Init ==
    /\ \E round \in SessionRounds :
          /\ board = round.board
          /\ words_collection = round.words
    /\ ModelInit
    /\ GuiIs(button_play_on_press(NewGUI, AllButtons))
    /\ handler = "on_play_button_pressed"
    /\ NoCalls

\* the callback of the board button at coordinate; a disabled button does
\* not run its callback, and no button does while a message box is open
board_button_callback(coordinate) ==
    /\ coordinate \in buttons_enabled
    /\ dialogs = <<>>
    /\ Becomes(update_word_and_path(self, coordinate))
    /\ buttons_enabled' =
          IF update_word_and_path(self, coordinate).current_path # <<>>
          THEN Range(get_buttons_to_enable(update_word_and_path(self, coordinate)))
          ELSE AllButtons
    /\ response' = None
    /\ handler' = "board_button_callback"
    /\ UNCHANGED <<credited, gui_vars, call_vars>>

BoardButtonPressed == \E coordinate \in AllButtons : board_button_callback(coordinate)

\* response.startswith("You")
StartsWithYou(ret) ==
    ret.msg \in {"You found", "You found. Nice work!", "You already found"}

\* response.startswith("You found")
StartsWithYouFound(ret) == ret.msg \in {"You found", "You found. Nice work!"}

on_check_button_pressed ==
    /\ actions_shown
    /\ dialogs = <<>>
    /\ response' = check_word(self).ret
    /\ LET checked == check_word(self).model
           shown == update_score(button_check_on_press(gui, AllButtons), checked.score)
       IN  /\ GuiBecomes(IF StartsWithYouFound(check_word(self).ret)
                         THEN add_word_to_words_found(shown, checked.current_word)
                         ELSE shown)
           /\ Credit(checked)
           /\ Becomes(reset_current_input(checked))
    /\ handler' = "on_check_button_pressed"
    /\ UNCHANGED call_vars

on_restart_button_pressed ==
    /\ actions_shown
    /\ dialogs = <<>>
    /\ Len(stop_countdown(gui).after_jobs) < MaxJobs
    /\ \E new_board \in RoundBoards :
          /\ Becomes(initialize_model(new_board))
          /\ GuiBecomes(button_restart_on_press(gui, Cells(new_board)))
    /\ response' = None
    /\ credited' = <<>>
    /\ handler' = "on_restart_button_pressed"
    /\ UNCHANGED call_vars

\* the ticks of the timer and the stop button are left to the timer
\* specification
Next ==
    \/ BoardButtonPressed
    \/ on_check_button_pressed
    \/ on_restart_button_pressed

Spec == Init /\ [][Next]_vars

(***************************************************************************)
(* The timer specification: the program from its start, with the play,     *)
(* stop and restart buttons, the answers to the message boxes and the      *)
(* callbacks of the countdown, which the event loop runs also while a      *)
(* message box is open.  The board buttons and the check button, which     *)
(* leave the timer alone, are not pressed.                                 *)
(***************************************************************************)
\* the state Controller.__init__ leaves: Model() has the board [[]]
InitTimer ==
    /\ board = << <<>> >>
    /\ \E round \in SessionRounds : words_collection = round.words
    /\ ModelInit
    /\ NoGui
    /\ NoCalls

on_play_button_pressed ==
    /\ button_play = "normal"
    /\ dialogs = <<>>
    /\ Len(after_jobs) < MaxJobs
    /\ \E new_board \in RoundBoards :
          /\ Becomes(initialize_model(new_board))
          /\ GuiBecomes(button_play_on_press(gui, Cells(new_board)))
    /\ response' = None
    /\ credited' = <<>>
    /\ handler' = "on_play_button_pressed"
    /\ UNCHANGED call_vars

\* the stop button is pressed: button_stop_on_press up to its message box
StopPressed ==
    /\ actions_shown
    /\ dialogs = <<>>
    /\ Len(after_jobs) < MaxJobs
    /\ GuiBecomes(button_stop_on_press(gui))
    /\ handler' = "button_stop_on_press"
    /\ UNCHANGED <<board, words_collection, words_found, current_word,
                   current_path, score, response, credited, call_vars>>

\* the question of the stop button is answered
StopAnswered ==
    /\ dialogs # <<>>
    /\ Head(dialogs) = "stop"
    /\ \E msg_box \in {"yes", "no"} : GuiBecomes(stop_answered(gui, msg_box))
    /\ handler' = "button_stop_on_press"
    /\ UNCHANGED <<board, words_collection, words_found, current_word,
                   current_path, score, response, credited, call_vars>>

\* the message box of __end_game is closed
EndGameClosed ==
    /\ dialogs # <<>>
    /\ Head(dialogs) = "end_game"
    /\ GuiBecomes(end_game_closed(gui))
    /\ handler' = "end_game"
    /\ UNCHANGED <<board, words_collection, words_found, current_word,
                   current_path, score, response, credited, call_vars>>

\* TIMER_DELAY_IN_MS have passed for the callback that has waited longest
Tick ==
    /\ after_jobs # <<>>
    /\ GuiBecomes(after_job_runs(gui))
    /\ handler' = "countdown"
    /\ UNCHANGED <<board, words_collection, words_found, current_word,
                   current_path, score, response, credited, call_vars>>

NextTimer ==
    \/ on_play_button_pressed
    \/ on_restart_button_pressed
    \/ StopPressed
    \/ StopAnswered
    \/ EndGameClosed
    \/ Tick

SpecTimer == InitTimer /\ [][NextTimer]_vars

(***************************************************************************)
(* The game specification: the program from its start with every button,   *)
(* every answer to a message box and the callbacks of the countdown.       *)
(***************************************************************************)
NextGame ==
    \/ BoardButtonPressed
    \/ on_check_button_pressed
    \/ NextTimer

SpecGame == InitTimer /\ [][NextGame]_vars

(***************************************************************************)
(* What the claims speak of, stated without the traversal.                 *)
(***************************************************************************)
Abs(x) == IF x < 0 THEN -x ELSE x

\* row and column deltas each in {-1, 0, 1}, not both zero
Adjacent8(c1, c2) ==
    /\ c1 # c2
    /\ Abs(c1[1] - c2[1]) <= 1
    /\ Abs(c1[2] - c2[2]) <= 1

\* a Path of the board: non-empty, in bounds, repeat-free, 8-adjacent
IsSimplePath(b, p) ==
    /\ Len(p) >= 1
    /\ \A i \in 1..Len(p) : p[i] \in Cells(b)
    /\ \A i, j \in 1..Len(p) : p[i] = p[j] => i = j
    /\ \A i \in 1..(Len(p) - 1) : Adjacent8(p[i], p[i + 1])

RECURSIVE Spelled(_, _)
\* the concatenation of the symbols at the coordinates of p, in order
Spelled(b, p) ==
    IF p = <<>> THEN <<>>
    ELSE b[p[1][1] + 1][p[1][2] + 1] \o Spelled(b, Tail(p))

\* the simple paths of exactly k cells; a repeat-free path has at most
\* as many cells as the board
SimplePathsOfCells(b, k) ==
    IF k \in 1..Cardinality(Cells(b))
    THEN {p \in [1..k -> Cells(b)] : IsSimplePath(b, p)}
    ELSE {}

AllSimplePaths(b) ==
    UNION {SimplePathsOfCells(b, k) : k \in 1..Cardinality(Cells(b))}

\* C1: find_length_n_paths(n, G, V) returns exactly the simple paths of n
\* cells on G whose spelled word is in V: each returned path has n cells, is
\* in bounds, 8-adjacent and repeat-free and spells a word of V, and every
\* such path is returned.
C1_PathsOfLengthExact ==
    call.fn = "find_length_n_paths" =>
        /\ \A i \in 1..Len(result) :
              /\ Len(result[i]) = call.n
              /\ IsSimplePath(board, result[i])
              /\ Spelled(board, result[i]) \in words_collection
        /\ Range(result) =
              {p \in SimplePathsOfCells(board, call.n) :
                  Spelled(board, p) \in words_collection}

\* a 3-cell path was returned on a board where two cells are not adjacent
C1_Witness ==
    /\ call.fn = "find_length_n_paths"
    /\ call.n = 3
    /\ Len(board) = 1
    /\ Len(result) >= 2

\* C2: find_length_n_words(n, G, V) returns only paths whose spelled word
\* has exactly n characters and is in V, and returns exactly the simple
\* paths on G that spell such a word, whatever their number of cells.
C2_WordsOfLengthExact ==
    call.fn = "find_length_n_words" =>
        /\ \A i \in 1..Len(result) :
              /\ Len(Spelled(board, result[i])) = call.n
              /\ Spelled(board, result[i]) \in words_collection
        /\ Range(result) =
              {p \in AllSimplePaths(board) :
                  /\ Len(Spelled(board, p)) = call.n
                  /\ Spelled(board, p) \in words_collection}

\* one word was returned on two paths of different cell counts: a
\* multi-character cell is on one of them
C2_Witness ==
    /\ call.fn = "find_length_n_words"
    /\ \E i, j \in 1..Len(result) :
          /\ Spelled(board, result[i]) = Spelled(board, result[j])
          /\ Len(result[i]) < Len(result[j])

\* C3: max_score_paths(G, V) returns one path for each vocabulary word that
\* some simple path on G spells, no two of them for the same word, and the
\* path of a word has at least as many cells as every simple path on G
\* that spells the word.
C3_MaxScoreOnePerWord ==
    call.fn = "max_score_paths" =>
        LET spelling == {p \in AllSimplePaths(board) :
                            Spelled(board, p) \in words_collection}
        IN  /\ {Spelled(board, result[i]) : i \in 1..Len(result)}
                  = {Spelled(board, p) : p \in spelling}
            /\ \A i, j \in 1..Len(result) :
                  Spelled(board, result[i]) = Spelled(board, result[j]) => i = j
            /\ \A i \in 1..Len(result) :
                  /\ IsSimplePath(board, result[i])
                  /\ \A p \in spelling :
                        Spelled(board, p) = Spelled(board, result[i])
                            => Len(p) <= Len(result[i])

\* two words were found, one of them also spelled by a path of fewer cells
\* than the one returned
C3_Witness ==
    /\ call.fn = "max_score_paths"
    /\ Len(result) = 2
    /\ \E i \in 1..Len(result) : \E p \in AllSimplePaths(board) :
          /\ Spelled(board, p) = Spelled(board, result[i])
          /\ Len(p) < Len(result[i])

RECURSIVE SumOfSquares(_)
\* the sum of (cell count)^2 over a list of paths
SumOfSquares(paths) ==
    IF paths = <<>> THEN 0
    ELSE Len(paths[1]) * Len(paths[1]) + SumOfSquares(Tail(paths))

\* the score of the paths max_score_paths returns for the round
MaxGameScore == SumOfSquares(max_score_paths(board, words_collection))

\* C4: the sum of (cell count)^2 over the paths of max_score_paths(G, V) is
\* the largest score a session on G and V reaches through the enabled board
\* buttons and the check button: no state of a round has a greater score,
\* and a round reaches it (C4_Witness).
C4_MaxScoreBoundsSession == score <= MaxGameScore

\* the score of a round equals the sum, each found word credited with the
\* longest of several paths of different cell counts
C4_Witness ==
    /\ score = MaxGameScore
    /\ Cardinality(words_found) = 2
    /\ \A w \in words_found : \E p \in AllSimplePaths(board) :
          Spelled(board, p) = w /\ Len(p) < credited[w]

\* a step in which check_word ran: only check_word returns a message
CheckStep == response'.msg # "None"

\* C5: a check_word call whose current word is in the vocabulary and not
\* yet found adds the word to words_found and adds to score the square of
\* the number of cells of current_path: 9 for 3 cells, 25 for 5 cells.
C5_FreshWordScoresSquareOfCells ==
    [][(/\ CheckStep
        /\ current_word \in words_collection
        /\ current_word \notin words_found)
       => /\ words_found' = words_found \cup {current_word}
          /\ score' = score + Len(current_path) * Len(current_path)
          /\ Len(current_path) = 3 => score' = score + 9
          /\ Len(current_path) = 5 => score' = score + 25]_vars

\* a first word of six characters was found on a path of five cells
C5_Witness ==
    /\ response.msg = "You found. Nice work!"
    /\ Len(response.word) = 6
    /\ words_found = {response.word}
    /\ credited[response.word] = 5
    /\ score = 25

\* C6: check_word on a word absent from the vocabulary returns the
\* not-a-word message, on a word already found the already-found message,
\* in both cases with score and words_found unchanged; in every case it
\* leaves current_path and current_word unchanged.
C6_RejectedCheckChangesNothing ==
    [][CheckStep
       => /\ current_path' = current_path
          /\ current_word' = current_word
          /\ current_word \notin words_collection
                => /\ response'.msg = "is not a word"
                   /\ score' = score
                   /\ words_found' = words_found
          /\ (current_word \in words_collection /\ current_word \in words_found)
                => /\ response'.msg = "You already found"
                   /\ score' = score
                   /\ words_found' = words_found]_vars

\* a found word was checked again on a path of another cell count
C6_Witness ==
    /\ response.msg = "You already found"
    /\ response.word = current_word
    /\ current_word \in words_found
    /\ credited[current_word] # Len(current_path)

RECURSIVE SumCredited(_)
\* the sum over the words of S of the square of the credited cell count
SumCredited(S) ==
    IF S = {} THEN 0
    ELSE LET w == CHOOSE x \in S : TRUE
         IN  credited[w] * credited[w] + SumCredited(S \ {w})

\* C7: in every state of a round score is the sum over the found words of
\* the square of the cell count each was credited with, and words_found is
\* a subset of the vocabulary; no step decreases score or removes a word
\* from words_found.
C7_ScoreIsSumOfCredits ==
    /\ [](/\ DOMAIN credited = words_found
          /\ score = SumCredited(words_found)
          /\ words_found \subseteq words_collection)
    /\ [][score' >= score /\ words_found \subseteq words_found']_vars

\* two words are found, credited with paths of different cell counts
C7_Witness ==
    /\ Cardinality(words_found) = 2
    /\ \E w1, w2 \in words_found : credited[w1] < credited[w2]
    /\ score > 0

\* C8: while every pressed board button is one the Controller left enabled,
\* current_path is empty or a Path: in bounds, repeat-free and 8-adjacent.
C8_PathValidWhileBuilt ==
    current_path = <<>> \/ IsSimplePath(board, current_path)

\* a path through every cell of a six-cell board was built
C8_Witness ==
    /\ Len(current_path) = 6
    /\ Len(current_path) = Cardinality(Cells(board))
    /\ response = None

\* C9: a call of update_word_and_path for a coordinate that is in
\* current_path but is not its last element, or that is neither the last
\* cell nor an unused neighbour of it, changes nothing.
C9_IllegalToggleIgnored ==
    \A c \in Cells(board) :
        (/\ current_path # <<>>
         /\ c # current_path[Len(current_path)]
         /\ \/ InList(c, current_path)
            \/ ~Adjacent8(current_path[Len(current_path)], c))
        => update_word_and_path(self, c) = self

\* C10: for every coordinate c, a call of update_word_and_path(c) that
\* appends c followed by a second call of update_word_and_path(c) leaves
\* current_path and current_word as they were before the first call.
C10_UndoInvertsExtend ==
    \A c \in Cells(board) :
        LET extended == update_word_and_path(self, c)
            retracted == update_word_and_path(extended, c)
        IN  Len(extended.current_path) = Len(current_path) + 1
            => /\ retracted.current_path = current_path
               /\ retracted.current_word = current_word

\* C11: in every state reached by update_word_and_path, check_word and
\* reset_current_input calls, current_word is the concatenation, in path
\* order, of the board symbols at the coordinates of current_path.
C11_WordSpelledByPath == current_word = Spelled(board, current_path)

\* the coordinates get_buttons_to_enable is said to return
LegalNextCells ==
    IF current_path = <<>> THEN Cells(board)
    ELSE LET last == current_path[Len(current_path)]
         IN  {last} \cup {c \in Cells(board) :
                             Adjacent8(last, c) /\ ~InList(c, current_path)}

\* C12: get_buttons_to_enable returns, for a non-empty current_path, exactly
\* its last cell and the in-bounds 8-neighbours of the last cell that are
\* not in current_path, and for an empty current_path every coordinate of
\* the board.
C12_LegalNextCells ==
    /\ current_path = <<>> => get_buttons_to_enable(self) # IndexError
    /\ Range(get_buttons_to_enable(self)) = LegalNextCells

\* C13: find_length_n_paths and find_length_n_words with n <= 0 return the
\* empty list, and every search function returns the empty list for the
\* empty vocabulary, whatever the board and n.
C13_NothingForNonPositiveOrEmpty ==
    /\ (call.fn \in {"find_length_n_paths", "find_length_n_words"} /\ call.n <= 0)
          => result = <<>>
    /\ (call.fn # "none" /\ words_collection = {}) => result = <<>>

\* n = 0 was asked on a board with a cell whose symbol is a vocabulary word
C13_Witness ==
    /\ call.fn = "find_length_n_words"
    /\ call.n = 0
    /\ \E c \in Cells(board) : Spelled(board, <<c>>) \in words_collection
    /\ result = <<>>

\* C14: reading the value at a coordinate outside the grid (row < 0,
\* row >= number of rows, col < 0 or col >= number of columns) fails with
\* IndexError; it never returns the symbol of a cell.
C14_OutsideGridFails ==
    (call.fn = "get_value_by_coordinate" /\ argument \notin Cells(board))
        => result = IndexError

\* C15: is_valid_path returns the word the path spells when the path is
\* non-empty, in bounds, 8-adjacent and repeat-free and the word is in
\* words, and None for every other sequence of coordinates.
C15_ValidPathWordOrNone ==
    call.fn = "is_valid_path" =>
        result = IF /\ IsSimplePath(board, argument)
                    /\ Spelled(board, argument) \in words_collection
                 THEN Spelled(board, argument)
                 ELSE NoWord

C17_ResetClearsInputOnly ==
    /\ [](reset_current_input(self) =
              [self EXCEPT !.current_path = <<>>, !.current_word = <<>>])
    /\ [][handler' = "on_check_button_pressed"
          => /\ current_path' = <<>>
             /\ current_word' = <<>>
             /\ score' = check_word(self).model.score
             /\ words_found' = check_word(self).model.words_found
             /\ board' = board
             /\ words_collection' = words_collection]_vars

\* a check that failed, after one that succeeded, left an empty input and
\* the score
C17_Witness ==
    /\ handler = "on_check_button_pressed"
    /\ response.msg = "is not a word"
    /\ response.word # <<>>
    /\ current_path = <<>>
    /\ current_word = <<>>
    /\ score > 0

\* a step of Controller.initialize_model
NewRoundStep ==
    handler' \in {"on_play_button_pressed", "on_restart_button_pressed"}

SearchDone == start.pc = "done"

\* what the search function returns, computed without steps
Returned ==
    IF call.fn = "find_length_n_paths"
    THEN find_length_n_paths(call.n, board, words_collection)
    ELSE IF call.fn = "find_length_n_words"
    THEN find_length_n_words(call.n, board, words_collection)
    ELSE max_score_paths(board, words_collection)

\* the steps of a search leave what the search function returns
TraversalAgrees == SearchDone => result = Returned

\* a call of __backtracking_action returns in this step
ActionReturns == Len(frames') < Len(frames)

\* C19: every search terminates, for every n (n <= 0 and n beyond the number
\* of cells included); the calls of __backtracking_action under way are
\* never more than the board has cells, curr_path never holds a coordinate
\* twice, and when a call returns curr_path holds exactly the coordinates
\* it held when the call was made.
C19_TraversalTerminates ==
    /\ <>SearchDone
    /\ [](/\ Len(frames) <= Cardinality(Cells(board))
          /\ Cardinality(Range(curr_path)) = Len(curr_path))
    /\ [][ActionReturns => curr_path = top.called_with]_vars

\* a search for more cells than the board has is four calls deep on the
\* four cells
C19_Witness ==
    /\ call.fn = "find_length_n_paths"
    /\ call.n > Cardinality(Cells(board))
    /\ Len(frames) = 4
    /\ Len(frames) = Cardinality(Cells(board))

\* C20: at most one countdown callback waits in the event loop, and
\* __end_game runs at most once in a round.
C20_OneCountdownOneEndGame ==
    /\ Len(after_jobs) <= 1
    /\ end_games <= 1

\* a step of Controller.on_check_button_pressed
CheckHandled == handler' = "on_check_button_pressed"

====
